---- MODULE Spec2Model ----
(***************************************************************************)
(* A model of PhysicsSim (physics_sim.py): the quadcopter rigid-body       *)
(* simulator, its construction, reset() and next_timestep().               *)
(*                                                                         *)
(* Numbers.  The program computes in IEEE doubles.  The model computes in  *)
(* fixed point: every physical quantity is an integer count of thousandths *)
(* of its SI unit (mm, mm/s, mrad, mN, ms, ...), a product is rescaled by  *)
(* Mul and a quotient by Div.  Rounding of doubles is not modelled; the    *)
(* special values that are modelled are NaN, which every arithmetic        *)
(* operation propagates and every comparison answers False to, and the two *)
(* infinities, with inf - inf = 0 * inf = inf / inf = NaN, as in the       *)
(* program.                                                                *)
(***************************************************************************)
EXTENDS Integers, Sequences, FiniteSets

VARIABLES
    init_pose,              \* self.init_pose
    init_velocities,        \* self.init_velocities
    init_angle_velocities,  \* self.init_angle_velocities
    runtime,                \* self.runtime
    time,                   \* self.time
    rotor_speeds,           \* self.rotor_speeds
    pose,                   \* self.pose
    v,                      \* self.v
    angular_v,              \* self.angular_v
    linear_accel,           \* self.linear_accel
    angular_accels,         \* self.angular_accels
    prop_wind_speed,        \* self.prop_wind_speed
    done,                   \* self.done
    position,               \* local `position` of the last next_timestep
    thrusts,                \* local `thrusts` of the last next_timestep
    moments,                \* local `moments` of the last next_timestep
    command,                \* argument of the last next_timestep
    op,                     \* the last call and how it ended
    before,                 \* self.time and self.done as the last call found them
    nsteps,                 \* next_timestep calls that returned since reset()
    hit                     \* a bound branch was taken since reset()

vars == <<init_pose, init_velocities, init_angle_velocities, runtime, time,
          rotor_speeds, pose, v, angular_v, linear_accel, angular_accels,
          prop_wind_speed, done, position, thrusts, moments, command, op, before,
          nsteps, hit>>

----------------------------------------------------------------------------
(* Arithmetic on doubles, in fixed point with NaN and the infinities.       *)

\* NaN is written as an integer that no computed quantity reaches; a trace
\* prints it as -1073741824
NaN == -(2^30)

IsNaN(x) == x = NaN

\* float('inf'), above every computed quantity; -Inf is float('-inf')
Inf == 2^30 - 1

IsInf(x) == x = Inf \/ x = -Inf

\* the infinity of the sign of a product or quotient of a and b
SignedInf(a, b) == IF (a > 0) = (b > 0) THEN Inf ELSE -Inf

Neg(a) == IF IsNaN(a) THEN NaN ELSE -a

Add(a, b) ==
    IF IsNaN(a) \/ IsNaN(b) THEN NaN
    ELSE IF IsInf(a) THEN (IF b = -a THEN NaN ELSE a)
    ELSE IF IsInf(b) THEN b
    ELSE a + b

Sub(a, b) == IF IsNaN(a) \/ IsNaN(b) THEN NaN ELSE Add(a, -b)

\* floor(x * y / 1000) without the wide product x * y: x = 1000 * q + r
MulWide(x, y) == (x \div 1000) * y + ((x % 1000) * y) \div 1000

\* a * b of two quantities in thousandths
Mul(a, b) ==
    IF IsNaN(a) \/ IsNaN(b) THEN NaN
    ELSE IF IsInf(a) \/ IsInf(b)
         THEN (IF a = 0 \/ b = 0 THEN NaN ELSE SignedInf(a, b))
    ELSE IF (IF a < 0 THEN -a ELSE a) >= (IF b < 0 THEN -b ELSE b)
         THEN MulWide(a, b) ELSE MulWide(b, a)

\* a / b of two quantities in thousandths (b is never 0 where the code divides)
Div(a, b) ==
    IF IsNaN(a) \/ IsNaN(b) THEN NaN
    ELSE IF IsInf(a) THEN (IF IsInf(b) THEN NaN ELSE SignedInf(a, b))
    ELSE IF IsInf(b) THEN 0
    ELSE (a * 1000) \div b

\* np.absolute / abs
Abs(a) == IF IsNaN(a) THEN NaN ELSE IF a < 0 THEN -a ELSE a

\* np.sign, in thousandths
Sign(a) == IF IsNaN(a) THEN NaN ELSE IF a > 0 THEN 1000 ELSE IF a < 0 THEN -1000 ELSE 0

\* a <= b and a > b on doubles: False when either side is NaN
Le(a, b) == ~IsNaN(a) /\ ~IsNaN(b) /\ a <= b

Gt(a, b) == ~IsNaN(a) /\ ~IsNaN(b) /\ a > b

\* elementwise arithmetic of arrays of three
VAdd(a, b) == <<Add(a[1], b[1]), Add(a[2], b[2]), Add(a[3], b[3])>>

VSub(a, b) == <<Sub(a[1], b[1]), Sub(a[2], b[2]), Sub(a[3], b[3])>>

VMul(a, b) == <<Mul(a[1], b[1]), Mul(a[2], b[2]), Mul(a[3], b[3])>>

VDiv(a, b) == <<Div(a[1], b[1]), Div(a[2], b[2]), Div(a[3], b[3])>>

\* array * scalar and array / scalar
VScale(a, k) == <<Mul(a[1], k), Mul(a[2], k), Mul(a[3], k)>>

VOver(a, k) == <<Div(a[1], k), Div(a[2], k), Div(a[3], k)>>

\* one row of np.matmul
Dot(r, x) == Add(Add(Mul(r[1], x[1]), Mul(r[2], x[2])), Mul(r[3], x[3]))

\* np.matmul of a 3x3 matrix and a 3-vector
MatMul(R, x) == <<Dot(R[1], x), Dot(R[2], x), Dot(R[3], x)>>

\* np.transpose of a 3x3 matrix
Transpose(R) ==
    << <<R[1][1], R[2][1], R[3][1]>>,
       <<R[1][2], R[2][2], R[3][2]>>,
       <<R[1][3], R[2][3], R[3][3]>> >>

----------------------------------------------------------------------------
(* np.pi, np.sin, np.cos.  Angles are in mrad; sine and cosine are in      *)
(* thousandths, from Bhaskara's rational approximation on a half turn.     *)

Pi == 3142

TwoPi == 2 * Pi

HalfTurnSine(x) ==
    LET p == (x * (Pi - x)) \div 1000
        PiSq == (Pi * Pi) \div 1000
    IN  (16000 * p) \div (5 * PiSq - 4 * p)

S(x) ==
    IF IsNaN(x) \/ IsInf(x) THEN NaN
    ELSE LET r == x % TwoPi
         IN  IF r <= Pi THEN HalfTurnSine(r) ELSE -HalfTurnSine(r - Pi)

C(x) == IF IsNaN(x) \/ IsInf(x) THEN NaN ELSE S(x + Pi \div 2)

earth_to_body_frame(ii, jj, kk) ==
    LET Ci == C(ii)
        Si == S(ii)
        Cj == C(jj)
        Sj == S(jj)
        Ck == C(kk)
        Sk == S(kk)
    IN  << << Mul(Ck, Cj),
              Sub(Mul(Mul(Ck, Sj), Si), Mul(Sk, Ci)),
              Add(Mul(Mul(Ck, Sj), Ci), Mul(Sk, Si)) >>,
           << Mul(Sk, Cj),
              Add(Mul(Mul(Sk, Sj), Si), Mul(Ck, Ci)),
              Sub(Mul(Mul(Sk, Sj), Ci), Mul(Ck, Si)) >>,
           << Neg(Sj), Mul(Cj, Si), Mul(Cj, Ci) >> >>

body_to_earth_frame(ii, jj, kk) == Transpose(earth_to_body_frame(ii, jj, kk))

----------------------------------------------------------------------------
(* PhysicsSim.__init__: the physical constants, in thousandths.            *)

gravity == -9810

rho == 1200

mass == 958

dt == 20

C_d == 300

l_to_rotor == 400

T_q == 100

propeller_size == 100

width == 510

length == 510

height == 235

dims == <<width, length, height>>

areas == <<Mul(length, height), Mul(width, height), Mul(width, length)>>

I_x == Mul(Mul(Div(1000, 12000), mass), Add(Mul(height, height), Mul(width, width)))

I_y == Mul(Mul(Div(1000, 12000), mass), Add(Mul(height, height), Mul(length, length)))

I_z == Mul(Mul(Div(1000, 12000), mass), Add(Mul(width, width), Mul(length, length)))

moments_of_inertia == <<I_x, I_y, I_z>>

env_bounds == 300000

lower_bounds == <<Div(-env_bounds, 2000), Div(-env_bounds, 2000), 0>>

upper_bounds == <<Div(env_bounds, 2000), Div(env_bounds, 2000), env_bounds>>

\* np.mean of one row of three
Mean3(a) == Div(Add(Add(a[1], a[2]), a[3]), 3000)

\* np.mean([upper_bounds, lower_bounds], axis=1): one mean per row, two values
init_rotor_speeds == <<Mean3(upper_bounds), Mean3(lower_bounds)>>

----------------------------------------------------------------------------
(* The aerodynamic and propeller model, as functions of the fields read.   *)

find_body_velocity(ps, vel) == MatMul(earth_to_body_frame(ps[4], ps[5], ps[6]), vel)

get_linear_drag(ps, vel) ==
    LET body_velocity == find_body_velocity(ps, vel)
        linear_drag ==
            VScale(VMul(VScale(VMul(body_velocity, body_velocity), Mul(500, rho)), areas),
                   C_d)
    IN  VMul(<<Neg(Sign(body_velocity[1])), Neg(Sign(body_velocity[2])),
               Neg(Sign(body_velocity[3]))>>, linear_drag)

\* Python's sum(thrusts)
SumThrusts(ts) == Add(Add(Add(Add(0, ts[1]), ts[2]), ts[3]), ts[4])

get_linear_forces(ts, ps, vel) ==
    LET gravity_force == VScale(<<0, 0, 1000>>, Mul(mass, gravity))
        thrust_body_force == <<0, 0, SumThrusts(ts)>>
        drag_body_force == get_linear_drag(ps, vel)
        body_forces == VAdd(thrust_body_force, drag_body_force)
        linear_forces == MatMul(body_to_earth_frame(ps[4], ps[5], ps[6]), body_forces)
    IN  VAdd(linear_forces, gravity_force)

\* get_moments with the yaw row of line 130 read as t0 + t2 + t1 - t3
get_moments_YawSign(ts, av) ==
    LET thrust_moment ==
            << Mul(Sub(Sub(Add(ts[1], ts[4]), ts[2]), ts[3]), l_to_rotor),
               Mul(Sub(Sub(Add(ts[3], ts[4]), ts[1]), ts[2]), l_to_rotor),
               Mul(Sub(Add(Add(ts[1], ts[3]), ts[2]), ts[4]), T_q) >>
        drag_moment ==
            VMul(VMul(VMul(VMul(VScale(av, Mul(Mul(C_d, 500), rho)),
                                <<Abs(av[1]), Abs(av[2]), Abs(av[3])>>), areas), dims), dims)
    IN  VSub(thrust_moment, drag_moment)

get_moments(ts, av) ==
    LET thrust_moment ==
            << Mul(Sub(Sub(Add(ts[1], ts[4]), ts[2]), ts[3]), l_to_rotor),
               Mul(Sub(Sub(Add(ts[3], ts[4]), ts[1]), ts[2]), l_to_rotor),
               Mul(Sub(Sub(Add(ts[1], ts[3]), ts[2]), ts[4]), T_q) >>
        drag_moment ==
            VMul(VMul(VMul(VMul(VScale(av, Mul(Mul(C_d, 500), rho)),
                                <<Abs(av[1]), Abs(av[2]), Abs(av[3])>>), areas), dims), dims)
    IN  VSub(thrust_moment, drag_moment)

calc_prop_wind_speed(ps, vel, av) ==
    LET body_velocity == find_body_velocity(ps, vel)[3]
        phi_dot == av[1]
        theta_dot == av[2]
        phi_vel == Mul(phi_dot, l_to_rotor)
        theta_vel == Mul(theta_dot, l_to_rotor)
    IN  << Sub(Add(body_velocity, phi_vel), theta_vel),
           Sub(Sub(body_velocity, phi_vel), theta_vel),
           Add(Sub(body_velocity, phi_vel), theta_vel),
           Add(Add(body_velocity, phi_vel), theta_vel) >>

\* one pass of the loop of get_propeller_thrust.  D**4 = 0.0001 is below the
\* resolution of a thousandth, so the factor D is applied four times.
PropellerThrust(V, n) ==
    LET D == propeller_size
        J == IF Gt(Abs(n), 1000) THEN Div(V, Mul(n, D)) ELSE 0
        C_T == Sub(Sub(120, Mul(70, J)), Mul(100, Mul(J, J)))
    IN  Mul(Mul(Mul(Mul(Mul(Mul(C_T, rho), Mul(n, n)), D), D), D), D)

get_propeller_thrust(rs, pws) ==
    << PropellerThrust(pws[1], rs[1]), PropellerThrust(pws[2], rs[2]),
       PropellerThrust(pws[3], rs[3]), PropellerThrust(pws[4], rs[4]) >>

----------------------------------------------------------------------------
(* Bounds of the model and the inputs it draws.                            *)

MaxSteps == 3

\* init_pose arguments: the default, 1 cm under the ceiling, one 2 mm over
\* the floor and 199 mm inside the x wall, and one outside the flight volume
\* with angles outside [0, 2 pi)
InitPoses ==
    { <<0, 0, 10000, 0, 0, 0>>,
      <<0, 0, 299990, 0, 0, 0>>,
      <<149801, 0, 2, 0, 0, 0>>,
      <<0, 200000, -5000, -500, 0, 7000>> }

InitVelocities == { <<0, 0, 0>>, <<10000, 0, 0>> }

InitAngleVelocities == { <<0, 0, 0>> }

\* runtime arguments: one dt, one and a half dt, and the default
Runtimes == { 20, 30, 5000 }

Configs ==
    [init_pose : InitPoses, init_velocities : InitVelocities,
     init_angle_vel : InitAngleVelocities, runtime : Runtimes]

\* rotor_speeds arguments: four equal speeds, a roll command, NaN commands,
\* four speeds of float('inf'), and arguments of 3 and of 5 elements
RotorCommands ==
    { <<0, 0, 0, 0>>,
      <<900000, 900000, 900000, 900000>>,
      <<400000, 900000, 900000, 400000>>,
      <<NaN, NaN, NaN, NaN>>,
      <<Inf, Inf, Inf, Inf>>,
      <<404000, 404000, 404000>>,
      <<404000, 404000, 404000, 404000, 404000>> }

----------------------------------------------------------------------------
(* The state machine.                                                      *)

\* np.zeros(3)
zeros3 == <<0, 0, 0>>

\* self.pose[:3] and self.pose[3:]
Position(ps) == <<ps[1], ps[2], ps[3]>>

Angles(ps) == <<ps[4], ps[5], ps[6]>>

\* what a call finds
Snapshot == [time |-> time, done |-> done]

\* __init__ with its arguments, ending in reset()
Init ==
    \E c \in Configs :
        /\ init_pose = c.init_pose
        /\ init_velocities = c.init_velocities
        /\ init_angle_velocities = c.init_angle_vel
        /\ runtime = c.runtime
        /\ time = 0
        /\ rotor_speeds = init_rotor_speeds
        /\ pose = c.init_pose
        /\ v = c.init_velocities
        /\ angular_v = c.init_angle_vel
        /\ linear_accel = zeros3
        /\ angular_accels = zeros3
        /\ prop_wind_speed =
              calc_prop_wind_speed(c.init_pose, c.init_velocities, c.init_angle_vel)
        /\ done = FALSE
        /\ position = Position(c.init_pose)
        /\ thrusts = <<>>
        /\ moments = <<>>
        /\ command = <<>>
        /\ op = "__init__"
        /\ before = Snapshot
        /\ nsteps = 0
        /\ hit = FALSE

\* reset() without line 69
reset_KeepsDone ==
    /\ time' = 0
    /\ rotor_speeds' = init_rotor_speeds
    /\ pose' = init_pose
    /\ v' = init_velocities
    /\ angular_v' = init_angle_velocities
    /\ linear_accel' = zeros3
    /\ angular_accels' = zeros3
    /\ prop_wind_speed' =
          calc_prop_wind_speed(init_pose, init_velocities, init_angle_velocities)
    /\ done' = done
    /\ position' = Position(init_pose)
    /\ thrusts' = <<>>
    /\ moments' = <<>>
    /\ command' = <<>>
    /\ op' = "reset"
    /\ before' = Snapshot
    /\ nsteps' = 0
    /\ hit' = FALSE
    /\ UNCHANGED <<init_pose, init_velocities, init_angle_velocities, runtime>>

reset ==
    /\ time' = 0
    /\ rotor_speeds' = init_rotor_speeds
    /\ pose' = init_pose
    /\ v' = init_velocities
    /\ angular_v' = init_angle_velocities
    /\ linear_accel' = zeros3
    /\ angular_accels' = zeros3
    /\ prop_wind_speed' =
          calc_prop_wind_speed(init_pose, init_velocities, init_angle_velocities)
    /\ done' = FALSE
    /\ position' = Position(init_pose)
    /\ thrusts' = <<>>
    /\ moments' = <<>>
    /\ command' = <<>>
    /\ op' = "reset"
    /\ before' = Snapshot
    /\ nsteps' = 0
    /\ hit' = FALSE
    /\ UNCHANGED <<init_pose, init_velocities, init_angle_velocities, runtime>>

\* line 191 left out
WrapAngle_None(a) == a

\* the angles of line 191
WrapAngle(a) == IF IsNaN(a) \/ IsInf(a) THEN NaN ELSE (a + TwoPi) % TwoPi

\* the boundary loop without its elif branch
NewPosition_NoUpperClamp(p, lo, hi) == IF Le(p, lo) THEN lo ELSE p

\* one pass of the boundary loop: the value appended to new_positions
NewPosition(p, lo, hi) == IF Le(p, lo) THEN lo ELSE IF Gt(p, hi) THEN hi ELSE p

\* the boundary loop with < for <= on line 196
SetsDone_StrictLower(p, lo, hi) == Gt(lo, p) \/ Gt(p, hi)

\* one pass of the boundary loop: whether it sets self.done
SetsDone(p, lo, hi) == Le(p, lo) \/ Gt(p, hi)

\* line 206 with = for +=
NextTime_Assign(t) == dt

\* line 206
NextTime(t) == t + dt

\* lines 207-208 left out
TimeIsUp_Never(t, rt) == FALSE

\* line 207 with >= for >
TimeIsUp_AtLeast(t, rt) == t >= rt

\* line 207
TimeIsUp(t, rt) == t > rt

\* lines 181-192 with line 185 moved before line 184: the position is computed
\* from the velocity already updated
Integrate_VelocityFirst(rs, ps, vel, av, pws) ==
    LET ts == get_propeller_thrust(rs, pws)
        accel == VOver(get_linear_forces(ts, ps, vel), mass)
        v_new == VAdd(vel, VScale(accel, dt))
        proposed ==
            VAdd(VAdd(Position(ps), VScale(v_new, dt)),
                 VScale(VScale(VScale(accel, 500), dt), dt))
        ms == get_moments(ts, av)
        ang_accels == VDiv(ms, moments_of_inertia)
        angles0 ==
            VAdd(VAdd(Angles(ps), VScale(av, dt)),
                 VScale(VScale(VScale(ang_accels, 500), dt), dt))
    IN  [ thrusts |-> ts,
          moments |-> ms,
          linear_accel |-> accel,
          position |-> proposed,
          v |-> v_new,
          angular_accels |-> ang_accels,
          angles |-> <<WrapAngle(angles0[1]), WrapAngle(angles0[2]), WrapAngle(angles0[3])>>,
          angular_v |-> VAdd(av, VScale(ang_accels, dt)) ]

\* lines 181-192 of next_timestep: the values computed from the state before
\* the step (ps, vel, av), the command rs and the wind speeds pws of line 180
Integrate(rs, ps, vel, av, pws) ==
    LET ts == get_propeller_thrust(rs, pws)
        accel == VOver(get_linear_forces(ts, ps, vel), mass)
        proposed ==
            VAdd(VAdd(Position(ps), VScale(vel, dt)),
                 VScale(VScale(VScale(accel, 500), dt), dt))
        ms == get_moments(ts, av)
        ang_accels == VDiv(ms, moments_of_inertia)
        angles0 ==
            VAdd(VAdd(Angles(ps), VScale(av, dt)),
                 VScale(VScale(VScale(ang_accels, 500), dt), dt))
    IN  [ thrusts |-> ts,
          moments |-> ms,
          linear_accel |-> accel,
          position |-> proposed,
          v |-> VAdd(vel, VScale(accel, dt)),
          angular_accels |-> ang_accels,
          angles |-> <<WrapAngle(angles0[1]), WrapAngle(angles0[2]), WrapAngle(angles0[3])>>,
          angular_v |-> VAdd(av, VScale(ang_accels, dt)) ]

\* the boundary loop, lines 194-203: new_positions
NewPositions(p) ==
    << NewPosition(p[1], lower_bounds[1], upper_bounds[1]),
       NewPosition(p[2], lower_bounds[2], upper_bounds[2]),
       NewPosition(p[3], lower_bounds[3], upper_bounds[3]) >>

\* the boundary loop, lines 194-203: whether some pass sets self.done
BoundHit(p) == \E i \in 1..3 : SetsDone(p[i], lower_bounds[i], upper_bounds[i])

\* self.done cleared at the start of every step
NewDone_Recomputed(d, p, t, rt) == BoundHit(p) \/ TimeIsUp(t, rt)

\* self.done when next_timestep returns: lines 198, 201 and 208 only set it
NewDone(d, p, t, rt) == d \/ BoundHit(p) \/ TimeIsUp(t, rt)

next_timestep(rs) ==
    /\ nsteps < MaxSteps
    /\ command' = rs
    /\ before' = Snapshot
    /\ rotor_speeds' = rs
    /\ \E pws \in {calc_prop_wind_speed(pose, v, angular_v)} :
        /\ prop_wind_speed' = pws
        /\ IF Len(rs) < 4
           THEN \* rotor_speeds[prop_number] raises IndexError in get_propeller_thrust
                /\ op' = "next_timestep raised"
                /\ UNCHANGED <<time, pose, v, angular_v, linear_accel, angular_accels,
                               done, position, thrusts, moments, nsteps, hit>>
           ELSE \E k \in {Integrate(rs, pose, v, angular_v, pws)} :
                /\ linear_accel' = k.linear_accel
                /\ position' = k.position
                /\ thrusts' = k.thrusts
                /\ moments' = k.moments
                /\ v' = k.v
                /\ angular_accels' = k.angular_accels
                /\ angular_v' = k.angular_v
                /\ pose' = NewPositions(k.position) \o k.angles
                /\ time' = NextTime(time)
                /\ done' = NewDone(done, k.position, NextTime(time), runtime)
                /\ op' = "next_timestep"
                /\ nsteps' = nsteps + 1
                /\ hit' = (hit \/ BoundHit(k.position))
    /\ UNCHANGED <<init_pose, init_velocities, init_angle_velocities, runtime>>

Next ==
    \/ reset
    \/ \E rs \in RotorCommands : next_timestep(rs)

Spec == Init /\ [][Next]_vars

----------------------------------------------------------------------------
(* The claims.                                                             *)

Stepped == op = "next_timestep"

Called == op \in {"next_timestep", "next_timestep raised"}

\* C1: done is monotonic within an episode: a call of next_timestep that finds
\* done true leaves it true; only reset() makes it false again.
C1_DoneMonotonic == Called /\ before.done => done

\* a step that found done true, takes no bound branch and ends before the
\* runtime: done is still true
C1_Witness ==
    /\ Stepped /\ before.done /\ done
    /\ time <= runtime
    /\ \A i \in 1..3 : position[i] > lower_bounds[i] /\ position[i] <= upper_bounds[i]

\* C2, as claimed: after any step every stored position component lies within
\* its bounds, and a proposed coordinate outside the bounds is stored as the
\* bound itself, with done true.
C2_Original ==
    Stepped =>
        \A i \in 1..3 :
            /\ Le(lower_bounds[i], pose[i]) /\ Le(pose[i], upper_bounds[i])
            /\ Gt(lower_bounds[i], position[i]) => pose[i] = lower_bounds[i] /\ done
            /\ Gt(position[i], upper_bounds[i]) => pose[i] = upper_bounds[i] /\ done

\* C2, amended: after any step every stored position component whose proposed
\* value is a number lies within its bounds, and a proposed coordinate outside
\* the bounds is stored as the bound itself, with done true; a proposed
\* coordinate that is NaN is stored as NaN.
C2_Amended ==
    Stepped =>
        \A i \in 1..3 :
            IF IsNaN(position[i])
            THEN IsNaN(pose[i])
            ELSE /\ lower_bounds[i] <= pose[i] /\ pose[i] <= upper_bounds[i]
                 /\ position[i] < lower_bounds[i] => pose[i] = lower_bounds[i] /\ done
                 /\ position[i] > upper_bounds[i] => pose[i] = upper_bounds[i] /\ done

\* a step whose proposed x is beyond the upper bound
C2_Witness ==
    Stepped /\ position[1] > upper_bounds[1] /\ pose[1] = upper_bounds[1] /\ done

\* the whole state that reset() leaves, a function of the configuration alone
ResetState ==
    /\ time = 0
    /\ done = FALSE
    /\ pose = init_pose
    /\ v = init_velocities
    /\ angular_v = init_angle_velocities
    /\ rotor_speeds = init_rotor_speeds
    /\ linear_accel = zeros3
    /\ angular_accels = zeros3
    /\ prop_wind_speed =
          calc_prop_wind_speed(init_pose, init_velocities, init_angle_velocities)

\* C3: reset() in any reachable state yields time = 0, done = false and pose,
\* velocity and angular velocity equal to the configured values; no call
\* alters the configured values; the state after reset() depends on nothing
\* else, so a second reset() changes nothing.
C3_ResetRestores ==
    /\ [](op = "reset" => ResetState)
    /\ [][UNCHANGED <<init_pose, init_velocities, init_angle_velocities>>]_vars

\* reset() called in a Done state, after steps that moved the vehicle
C3_Witness ==
    op = "reset" /\ before.done /\ before.time >= 2 * dt /\ ResetState

\* C4: time increases by exactly dt on every step that returns, also when done
\* was already true and when a bound is violated; k steps after reset() time
\* is k * dt; between resets time never decreases.
C4_TimeAdvances ==
    /\ Stepped => time = before.time + dt
    /\ Called => time >= before.time
    /\ time = nsteps * dt

\* a step taken with done already true, in which a bound is violated again
C4_Witness ==
    /\ Stepped /\ before.done /\ nsteps >= 2
    /\ \E i \in 1..3 : position[i] > upper_bounds[i]

\* C5: in an episode with no bound violation, done is false after every step
\* whose time is <= runtime (also when equal) and true after every step whose
\* time is > runtime.
C5_DoneAtRuntime == Stepped /\ ~hit => (done <=> time > runtime)

\* runtime is one dt: after exactly one step time equals runtime and done is false
C5_Witness == Stepped /\ ~hit /\ nsteps = 1 /\ time = runtime /\ ~done

\* C6, as claimed: after any step every orientation component lies in [0, 2 pi).
C6_Original ==
    Stepped => \A i \in 4..6 : Le(0, pose[i]) /\ Gt(TwoPi, pose[i])

\* C6, amended: after any step every orientation component that is a number
\* lies in [0, 2 pi); the others are NaN.
C6_Amended ==
    Stepped => \A i \in 4..6 : IsNaN(pose[i]) \/ (0 <= pose[i] /\ pose[i] < TwoPi)

\* a roll that took the angle from 0 below 0: it is stored just under 2 pi
C6_Witness ==
    /\ Stepped /\ init_pose[4] = 0 /\ ~IsNaN(pose[4]) /\ ~IsNaN(angular_v[1])
    /\ angular_v[1] < 0 /\ pose[4] > Pi

\* C7, as claimed: next_timestep with an argument of other than 4 elements
\* raises, and leaves rotor_speeds, prop_wind_speed, pose, velocity, angular
\* velocity, time and done as they were.
C7_Original ==
    [][ (Called' /\ Len(command') # 4) =>
            /\ op' = "next_timestep raised"
            /\ UNCHANGED <<rotor_speeds, prop_wind_speed, pose, v, angular_v, time, done>>
      ]_vars

\* C8: the boundary rule, axis by axis: a proposed coordinate <= the lower
\* bound is stored as the lower bound and sets done; otherwise one > the upper
\* bound is stored as the upper bound and sets done; otherwise it is stored
\* unchanged, and an axis in this case does not set done.
C8_BoundaryRule ==
    Stepped =>
        /\ \A i \in 1..3 :
              IF ~IsNaN(position[i]) /\ position[i] <= lower_bounds[i]
              THEN pose[i] = lower_bounds[i] /\ done
              ELSE IF ~IsNaN(position[i]) /\ position[i] > upper_bounds[i]
              THEN pose[i] = upper_bounds[i] /\ done
              ELSE pose[i] = position[i]
        /\ (done /\ ~before.done /\ time <= runtime) =>
              \E i \in 1..3 :
                  /\ ~IsNaN(position[i])
                  /\ position[i] <= lower_bounds[i] \/ position[i] > upper_bounds[i]

\* one step in which x is proposed exactly at its upper bound and kept, and z
\* exactly at its lower bound, which sets done
C8_Witness ==
    /\ Stepped /\ ~before.done /\ time <= runtime /\ done
    /\ position[1] = upper_bounds[1] /\ pose[1] = position[1]
    /\ position[2] = 0 /\ pose[2] = 0
    /\ position[3] = lower_bounds[3] /\ pose[3] = lower_bounds[3]

\* C9, as claimed: in every reachable state, the one after construction
\* included, the position lies within the bounds and the orientation in
\* [0, 2 pi).
C9_Original ==
    /\ \A i \in 1..3 : Le(lower_bounds[i], pose[i]) /\ Le(pose[i], upper_bounds[i])
    /\ \A i \in 4..6 : Le(0, pose[i]) /\ Gt(TwoPi, pose[i])

\* C10, as claimed: after construction, after reset() and after every step that
\* returns, rotor_speeds holds exactly 4 values, and after a step the values
\* commanded.
C10_Original ==
    /\ op \in {"__init__", "reset", "next_timestep"} => Len(rotor_speeds) = 4
    /\ Stepped => rotor_speeds = command

\* C11: every episode terminates: counted from __init__ or reset(), done is
\* true after every step from the (floor(runtime / dt) + 1)-th on, whatever
\* the commands; a bound violation makes done true at that step already and
\* never later than the time limit would.
C11_DoneWithinBound ==
    /\ Stepped /\ nsteps >= (runtime \div dt) + 1 => done
    /\ Stepped /\ hit => done

\* runtime is one and a half dt and no bound is violated: the first step leaves
\* done false, the second, step floor(runtime / dt) + 1, sets it
C11_Witness ==
    /\ Stepped /\ ~hit /\ runtime % dt # 0
    /\ nsteps = (runtime \div dt) + 1 /\ ~before.done /\ done

\* 0.5 * a * dt * dt, as line 184 evaluates it
HalfAccelDtDt(a) == VScale(VScale(VScale(a, 500), dt), dt)

\* C12: in a step that returns, the proposed position is the stored position
\* before the step plus dt times the velocity before the step plus
\* 0.5 dt^2 times the acceleration of this step; the new velocity is the old
\* one plus dt times that same acceleration; and the acceleration is the net
\* force over the mass, computed from the velocity, the orientation and the
\* angular velocity held before the step.
C12_PositionFromOldVelocity ==
    [][ Stepped' =>
            /\ position' =
                  VAdd(VAdd(Position(pose), VScale(v, dt)), HalfAccelDtDt(linear_accel'))
            /\ v' = VAdd(v, VScale(linear_accel', dt))
            /\ linear_accel' =
                  VOver(get_linear_forces(
                            get_propeller_thrust(command',
                                calc_prop_wind_speed(pose, v, angular_v)),
                            pose, v), mass)
      ]_vars

\* the first step of an episode, so that the state before it is the
\* configured one: the vehicle moves at 10 m/s along x and decelerates, the
\* proposed x is the one computed from the old velocity, and the one computed
\* from the new velocity would differ
C12_Witness ==
    /\ Stepped /\ nsteps = 1 /\ init_velocities[1] # 0
    /\ ~IsNaN(linear_accel[1]) /\ v[1] # init_velocities[1]
    /\ position[1] =
          init_pose[1] + Mul(init_velocities[1], dt) + HalfAccelDtDt(linear_accel)[1]
    /\ position[1] # init_pose[1] + Mul(v[1], dt) + HalfAccelDtDt(linear_accel)[1]

\* a == b on doubles: False when either side is NaN
Eq(a, b) == ~IsNaN(a) /\ ~IsNaN(b) /\ a = b

AllEqual4(x) == \A i \in 1..4 : Eq(x[i], x[1])

\* what C13 concludes of a step: equal wind speeds, equal thrusts, no net
\* moment, and an angular velocity of zero after it
NoNetMoment ==
    /\ AllEqual4(prop_wind_speed)
    /\ AllEqual4(thrusts)
    /\ moments = zeros3
    /\ angular_accels = zeros3
    /\ angular_v = zeros3

\* C13, as claimed: a step commanded four equal rotor speeds and taken with an
\* angular velocity of zero computes four equal wind speeds, four equal
\* thrusts and roll, pitch and yaw moments of zero, and leaves the angular
\* velocity zero.
C13_Original ==
    [][ (Stepped' /\ AllEqual4(command') /\ angular_v = zeros3) => NoNetMoment' ]_vars

\* C13, amended: the same of a step whose four equal thrusts are finite.
C13_Amended ==
    [][ ( /\ Stepped' /\ AllEqual4(command') /\ angular_v = zeros3
          /\ ~IsInf(thrusts'[1]) ) => NoNetMoment' ]_vars

\* the second of two steps at four equal speeds of a vehicle that is rolled and
\* yawed and moves: the wind speeds and the thrusts are not zero, the moments are
C13_Witness ==
    /\ Stepped /\ nsteps = 2 /\ AllEqual4(command) /\ command[1] > 0
    /\ init_pose[4] # 0 /\ init_velocities[1] # 0
    /\ prop_wind_speed[1] # 0 /\ thrusts[1] > 0 /\ ~IsInf(thrusts[1])
    /\ NoNetMoment

====
